---- MODULE Spec2Model ----
(***************************************************************************)
(* Audio-route detector of the expo-audio-route module.                    *)
(*                                                                         *)
(* Two native implementations (Android, Kotlin; iOS, Swift) expose one     *)
(* contract: getCurrentRouteAsync (pull) and the onAudioRouteChange event  *)
(* (push).  The state is the module object's fields (audioManager,         *)
(* deviceCallback on Android; routeChangeObserver on iOS), the platform's  *)
(* set of registered callbacks, the platform's output devices, the         *)
(* JavaScript listeners, and the log of events handed to sendEvent.        *)
(***************************************************************************)
EXTENDS Integers, Sequences, FiniteSets, TLC

VARIABLES
    platform,             \* "android" or "ios": which implementation runs
    created,              \* the module's creation step has run
    audioManager,         \* Android field: TRUE when the AudioManager handle is non-null
    fault,                \* an exception was thrown by the module's code
    deviceCallback,       \* Android field: registration handle, Null when absent
    routeChangeObserver,  \* iOS field: observer token, Null when absent
    registered,           \* callbacks/observers registered with the platform source
    listeners,            \* JavaScript listeners of onAudioRouteChange
    devices,              \* the platform's current output devices, in platform order
    events,               \* routes handed to sendEvent("onAudioRouteChange"), in order
    result,               \* value the last getCurrentRouteAsync resolved to
    lastOp,               \* history: the last operation performed
    prevOp,               \* history: the operation performed before lastOp
    calls,                \* history: platform calls made by the last operation
    sent,                 \* history: routes the last operation handed to sendEvent
    received,             \* history: routes the last operation delivered to each listener
    hookValue,            \* value the last useAudioRouteChangedEvent call returned
    pc,                   \* position inside OnStartObserving: "idle", "subscribed", "emitted"
    pending,              \* platform notifications raised and not yet handled, oldest first
    props,                \* the native view's props: options and selectedIndex
    onOptionChange,       \* view events dispatched by the step just taken
    hookQueue,            \* events sent to JavaScript, not yet handled by the hook's listener
    hookState,            \* the hook's React state, and whether a render is due for it
    handled               \* history: ids of the platform notifications handled, in order

vars == << platform, created, audioManager, fault, deviceCallback,
           routeChangeObserver, registered, listeners, devices, events,
           result, lastOp, prevOp, calls, sent, received, hookValue, pc, pending,
           props, onOptionChange, hookQueue, hookState, handled >>

----------------------------------------------------------------------------
(* Bounds of the model.                                                    *)

\* longest device collection handed to the classifier
MaxDevices == 3
\* most events kept in the sendEvent log
MaxEvents == 3
\* most callbacks simultaneously registered with the platform
MaxRegs == 3
\* most JavaScript listeners subscribed at once
MaxListeners == 2
\* platform notifications raised and not yet handled
MaxPending == 2
\* most events waiting for the hook's listener
MaxInFlight == 2
\* most platform notifications raised in one run
MaxRaised == 2

----------------------------------------------------------------------------
(* Values.                                                                 *)

\* an absent registration handle
Null == 0

\* an absent device (firstOrNull found none)
NoDevice == "null"

Platforms == {"android", "ios"}

\* type AudioRoute = "speaker" | "wiredHeadset" | "bluetooth" | "unknown"
AudioRoute == {"speaker", "wiredHeadset", "bluetooth", "unknown"}

\* AudioDeviceInfo.TYPE_* tags an Android output device can carry
AndroidTypes == {"TYPE_WIRED_HEADPHONES", "TYPE_WIRED_HEADSET", "TYPE_USB_HEADSET",
                 "TYPE_BLUETOOTH_A2DP", "TYPE_BLUETOOTH_SCO", "TYPE_BLE_HEADSET",
                 "TYPE_BUILTIN_SPEAKER", "TYPE_BUILTIN_EARPIECE", "TYPE_HDMI"}

\* AVAudioSession.Port tags an iOS output port can carry
IOSTypes == {"headphones", "headsetMic", "usbAudio",
             "bluetoothA2DP", "bluetoothLE", "bluetoothHFP",
             "builtInSpeaker", "builtInReceiver", "HDMI", "airPlay"}

DeviceTypes(p) == IF p = "android" THEN AndroidTypes ELSE IOSTypes

\* all device collections of at most n devices over the type tags T
SeqsUpTo(T, n) == UNION {[1..k -> T] : k \in 0..n}

ListenerIds == 1..MaxListeners

\* no listener was handed an event
NoneReceived == [l \in ListenerIds |-> << >>]

\* the hook has not been called yet
\* the hook's state before its component has rendered
NoState == [route |-> "none", dirty |-> FALSE]

NotRendered == [route |-> "none"]

\* selectedIndex: Int? = null
NullIndex == -2

\* ExpoAudioRouteViewProps(): options = emptyArray(), selectedIndex = null
ExpoAudioRouteViewProps == [options |-> << >>, selectedIndex |-> NullIndex]

----------------------------------------------------------------------------
(* Route classifier.                                                       *)

\* Kotlin: val wiredTypes = listOf(...)
wiredTypes == {"TYPE_WIRED_HEADPHONES", "TYPE_WIRED_HEADSET", "TYPE_USB_HEADSET"}

\* Kotlin: val bluetoothTypes = listOf(...)
bluetoothTypes == {"TYPE_BLUETOOTH_A2DP", "TYPE_BLUETOOTH_SCO"}

\* Kotlin: val speakerTypes = listOf(...)
speakerTypes == {"TYPE_BUILTIN_SPEAKER", "TYPE_BUILTIN_EARPIECE"}

\* Kotlin: outputs.firstOrNull { it.type in types }; Null when none matches
firstOrNull(outputs, types) ==
    IF \E i \in 1..Len(outputs) : outputs[i] \in types
    THEN outputs[CHOOSE i \in 1..Len(outputs) :
                    /\ outputs[i] \in types
                    /\ \A j \in 1..(i - 1) : outputs[j] \notin types]
    ELSE NoDevice

\* a plausible slip: the built-in speaker reported as the fallback route
currentRouteAndroid_speakerFallback(am, devs) ==
    IF ~am \/ devs = << >> THEN "unknown"
    ELSE LET wired     == firstOrNull(devs, wiredTypes)
             bluetooth == firstOrNull(devs, bluetoothTypes)
         IN  IF wired # NoDevice THEN "wiredHeadset"
             ELSE IF bluetooth # NoDevice THEN "bluetooth"
             ELSE "speaker"

\* a plausible slip: the selected device's type tag returned unmapped
currentRouteAndroid_rawType(am, devs) ==
    IF ~am \/ devs = << >> THEN "unknown"
    ELSE LET wired     == firstOrNull(devs, wiredTypes)
             bluetooth == firstOrNull(devs, bluetoothTypes)
             speaker   == firstOrNull(devs, speakerTypes)
         IN  IF wired # NoDevice THEN "wiredHeadset"
             ELSE IF bluetooth # NoDevice THEN "bluetooth"
             ELSE IF speaker # NoDevice THEN "speaker"
             ELSE devs[1]

\* Kotlin currentRoute(): am is audioManager != null, devs what getDevices returns
currentRouteAndroid(am, devs) ==
    \* outputs = audioManager?.getDevices(...) is null exactly when am is FALSE
    IF ~am \/ devs = << >>                        \* outputs.isNullOrEmpty()
    THEN "unknown"
    ELSE LET outputs == devs
         IN  LET wired     == firstOrNull(outputs, wiredTypes)
                 bluetooth == firstOrNull(outputs, bluetoothTypes)
                 speaker   == firstOrNull(outputs, speakerTypes)
                 device    == IF wired # NoDevice THEN wired
                              ELSE IF bluetooth # NoDevice THEN bluetooth
                              ELSE IF speaker # NoDevice THEN speaker
                              ELSE NoDevice
             IN  IF device \in wiredTypes THEN "wiredHeadset"
                 ELSE IF device \in bluetoothTypes THEN "bluetooth"
                 ELSE IF device \in speakerTypes THEN "speaker"
                 ELSE "unknown"

\* Swift currentRoute(): outs is session.currentRoute.outputs
currentRouteIOS(outs) ==
    IF outs = << >>                               \* outputs.first == nil
    THEN "unknown"
    ELSE LET first == outs[1]
         IN  IF first \in {"headphones", "headsetMic"} THEN "wiredHeadset"
             ELSE IF first \in {"bluetoothA2DP", "bluetoothLE", "bluetoothHFP"}
                  THEN "bluetooth"
             ELSE IF first = "builtInSpeaker" THEN "speaker"
             ELSE "unknown"

\* the classifier of the running implementation, on the platform's current devices
currentRoute ==
    IF platform = "android" THEN currentRouteAndroid(audioManager, devices)
    ELSE currentRouteIOS(devices)

----------------------------------------------------------------------------
(* Platform collaborators.                                                 *)

\* device collections the platform moves between while the module runs
DeviceScenarios(p) ==
    IF p = "android"
    THEN { << >>,
           << "TYPE_BUILTIN_SPEAKER" >>,
           << "TYPE_BUILTIN_SPEAKER", "TYPE_BLUETOOTH_A2DP" >>,
           << "TYPE_WIRED_HEADPHONES" >>,
           << "TYPE_HDMI" >> }
    ELSE { << >>,
           << "builtInSpeaker" >>,
           << "bluetoothA2DP" >>,
           << "headphones" >>,
           << "airPlay" >> }

\* the handle field of the running implementation
Handle == IF platform = "android" THEN deviceCallback ELSE routeChangeObserver

\* identity of a newly created callback object / observer token
FreshId ==
    CHOOSE i \in 1..(MaxRegs + 2) :
        /\ i \notin registered \cup {deviceCallback, routeChangeObserver}
        /\ \A j \in 1..(i - 1) : j \in registered \cup {deviceCallback, routeChangeObserver}

\* the last MaxEvents entries of the sendEvent log
Window(s) ==
    IF Len(s) > MaxEvents THEN SubSeq(s, Len(s) - MaxEvents + 1, Len(s)) ELSE s

\* n copies of route r, one per callback invoked
Repeat(r, n) == [i \in 1..n |-> r]

----------------------------------------------------------------------------
(* Change observer.                                                        *)

\* a plausible slip: the guard omits audioManager == null, so the callback object
\* is stored although the null-safe registerAudioDeviceCallback call does nothing
startObservingRouteChangesAndroid_noServiceCheck ==
    IF deviceCallback # Null
    THEN /\ UNCHANGED << deviceCallback, registered >>
         /\ calls' = << >>
    ELSE /\ deviceCallback' = FreshId
         /\ registered' = IF audioManager THEN registered \cup {FreshId} ELSE registered
         /\ calls' = IF audioManager THEN << [call |-> "register", id |-> FreshId] >>
                     ELSE << >>

\* Kotlin startObservingRouteChanges()
startObservingRouteChangesAndroid ==
    IF deviceCallback # Null \/ ~audioManager
    THEN /\ UNCHANGED << deviceCallback, registered >>
         /\ calls' = << >>
    ELSE /\ deviceCallback' = FreshId
         /\ registered' = registered \cup {FreshId}
         /\ calls' = << [call |-> "register", id |-> FreshId] >>

\* Swift startObservingRouteChanges()
startObservingRouteChangesIOS ==
    /\ routeChangeObserver' = FreshId
    /\ registered' = registered \cup {FreshId}
    /\ calls' = << [call |-> "register", id |-> FreshId] >>

startObservingRouteChanges ==
    IF platform = "android"
    THEN startObservingRouteChangesAndroid /\ UNCHANGED routeChangeObserver
    ELSE startObservingRouteChangesIOS /\ UNCHANGED deviceCallback

\* a plausible slip: the callback is unregistered but the handle is kept
stopObservingRouteChangesAndroid_keepsCallback ==
    IF deviceCallback = Null \/ ~audioManager
    THEN /\ UNCHANGED << deviceCallback, registered >>
         /\ calls' = << >>
    ELSE /\ registered' = registered \ {deviceCallback}
         /\ calls' = << [call |-> "unregister", id |-> deviceCallback] >>
         /\ UNCHANGED deviceCallback

\* a plausible slip: the handle is dropped, the platform callback stays
stopObservingRouteChangesAndroid_noUnregister ==
    IF deviceCallback = Null \/ ~audioManager
    THEN /\ UNCHANGED << deviceCallback, registered >>
         /\ calls' = << >>
    ELSE /\ UNCHANGED registered
         /\ calls' = << >>
         /\ deviceCallback' = Null

\* Kotlin stopObservingRouteChanges()
stopObservingRouteChangesAndroid ==
    IF deviceCallback = Null \/ ~audioManager
    THEN /\ UNCHANGED << deviceCallback, registered >>
         /\ calls' = << >>
    ELSE /\ registered' = registered \ {deviceCallback}
         /\ calls' = << [call |-> "unregister", id |-> deviceCallback] >>
         /\ deviceCallback' = Null

\* a plausible slip: the observer is removed but the stored token is kept
stopObservingRouteChangesIOS_keepsToken ==
    IF routeChangeObserver = Null
    THEN /\ UNCHANGED << routeChangeObserver, registered >>
         /\ calls' = << >>
    ELSE /\ registered' = registered \ {routeChangeObserver}
         /\ calls' = << [call |-> "unregister", id |-> routeChangeObserver] >>
         /\ UNCHANGED routeChangeObserver

\* Swift stopObservingRouteChanges()
stopObservingRouteChangesIOS ==
    IF routeChangeObserver = Null
    THEN /\ UNCHANGED << routeChangeObserver, registered >>
         /\ calls' = << >>
    ELSE /\ registered' = registered \ {routeChangeObserver}
         /\ calls' = << [call |-> "unregister", id |-> routeChangeObserver] >>
         /\ routeChangeObserver' = Null

stopObservingRouteChanges ==
    IF platform = "android"
    THEN stopObservingRouteChangesAndroid /\ UNCHANGED routeChangeObserver
    ELSE stopObservingRouteChangesIOS /\ UNCHANGED deviceCallback

\* the framework's emitter, as the specification describes it: each event is
\* handed to every listener subscribed at that moment
deliver(rs) ==
    received' = [l \in ListenerIds |-> IF l \in listeners' THEN rs ELSE << >>]

\* sendEvent("onAudioRouteChange", route) once per entry of rs
sendEvent(rs) ==
    /\ sent' = rs
    /\ events' = Window(events \o rs)
    /\ deliver(rs)

\* history bookkeeping shared by every operation
Did(op) ==
    /\ lastOp' = op
    /\ prevOp' = lastOp

----------------------------------------------------------------------------
(* Bridge surface.                                                         *)

\* Kotlin OnCreate { audioManager = ...?.getSystemService(AUDIO_SERVICE) as AudioManager }
\* available: the platform yields a service handle; a null makes the cast throw
OnCreate(available) ==
    /\ platform = "android"
    /\ ~created
    /\ created' = TRUE
    /\ IF available
       THEN audioManager' = TRUE /\ UNCHANGED fault
       ELSE fault' = TRUE /\ UNCHANGED audioManager
    /\ calls' = << >>
    /\ sent' = << >>
    /\ received' = NoneReceived
    /\ Did("onCreate")
    /\ UNCHANGED << hookState, handled, hookQueue, props, onOptionChange,
                    platform, deviceCallback, routeChangeObserver, registered,
                    listeners, devices, events, result, hookValue, pc, pending
                    >>

\* a plausible slip: the query starts the observer lazily
GetCurrentRouteAsync_startsObserving ==
    /\ created
    /\ result' = currentRoute
    /\ startObservingRouteChanges
    /\ sent' = << >>
    /\ received' = NoneReceived
    /\ Did("getCurrentRouteAsync")
    /\ UNCHANGED << hookState, handled, hookQueue, props, onOptionChange,
                    platform, created, audioManager, fault, listeners, devices,
                    events, hookValue, pc, pending >>

\* a plausible slip: the first classification is kept and returned again
GetCurrentRouteAsync_cached ==
    /\ created
    /\ result' = IF result = "none" THEN currentRoute ELSE result
    /\ calls' = << >>
    /\ sent' = << >>
    /\ received' = NoneReceived
    /\ Did("getCurrentRouteAsync")
    /\ UNCHANGED << hookState, handled, hookQueue, props, onOptionChange,
                    platform, created, audioManager, fault, deviceCallback,
                    routeChangeObserver, registered, listeners, devices, events,
                    hookValue, pc, pending >>

\* AsyncFunction("getCurrentRouteAsync") { currentRoute() }
GetCurrentRouteAsync ==
    /\ created
    /\ result' = currentRoute
    /\ calls' = << >>
    /\ sent' = << >>
    /\ received' = NoneReceived
    /\ Did("getCurrentRouteAsync")
    /\ UNCHANGED << hookState, handled, hookQueue, props, onOptionChange,
                    platform, created, audioManager, fault, deviceCallback,
                    routeChangeObserver, registered, listeners, devices, events,
                    hookValue, pc, pending >>

\* a plausible slip: the initial event is sent only when observing can start
OnStartObserving_onlyWhenObserving ==
    /\ sendEvent(IF platform = "android" /\ ~audioManager
                 THEN << >>
                 ELSE << currentRoute >>)
    /\ startObservingRouteChanges

\* a plausible slip: observing starts without the initial event
OnStartObserving_noInitialEvent ==
    /\ sendEvent(<< >>)
    /\ startObservingRouteChanges

\* OnStartObserving("onAudioRouteChange") { sendEvent(...); startObservingRouteChanges() }
OnStartObserving ==
    /\ sendEvent(<< currentRoute >>)
    /\ startObservingRouteChanges

\* a plausible slip: the stop hook does not reach stopObservingRouteChanges()
OnStopObserving_forgetsStop ==
    /\ sendEvent(<< >>)
    /\ calls' = << >>
    /\ UNCHANGED << deviceCallback, routeChangeObserver, registered >>

\* OnStopObserving("onAudioRouteChange") { stopObservingRouteChanges() }
OnStopObserving ==
    /\ sendEvent(<< >>)
    /\ stopObservingRouteChanges

\* a plausible slip: every new listener is greeted with the current route
AddListener_alwaysEmits(l) ==
    /\ created
    /\ l \notin listeners
    /\ Cardinality(registered) < MaxRegs
    /\ listeners' = listeners \cup {l}
    /\ IF listeners = {}
       THEN OnStartObserving
       ELSE /\ sendEvent(<< currentRoute >>)
            /\ calls' = << >>
            /\ UNCHANGED << deviceCallback, routeChangeObserver, registered >>
    /\ Did("addListener")
    /\ UNCHANGED << hookState, handled, hookQueue, props, onOptionChange,
                    platform, created, audioManager, fault, devices, result,
                    hookValue, pc, pending >>

\* JavaScript addListener("onAudioRouteChange", l); the first listener starts observing
AddListener(l) ==
    /\ created
    /\ l \notin listeners
    /\ Cardinality(registered) < MaxRegs
    /\ listeners' = listeners \cup {l}
    /\ IF listeners = {}
       THEN OnStartObserving
       ELSE /\ sendEvent(<< >>)
            /\ calls' = << >>
            /\ UNCHANGED << deviceCallback, routeChangeObserver, registered >>
    /\ Did("addListener")
    /\ UNCHANGED << hookState, handled, hookQueue, props, onOptionChange,
                    platform, created, audioManager, fault, devices, result,
                    hookValue, pc, pending >>

\* JavaScript subscription.remove(); the last listener's removal stops observing
RemoveListener(l) ==
    /\ created
    /\ l \in listeners
    /\ listeners' = listeners \ {l}
    /\ IF listeners = {l}
       THEN OnStopObserving
       ELSE /\ sendEvent(<< >>)
            /\ calls' = << >>
            /\ UNCHANGED << deviceCallback, routeChangeObserver, registered >>
    /\ Did("removeListener")
    /\ UNCHANGED << hookState, handled, hookQueue, props, onOptionChange,
                    platform, created, audioManager, fault, devices, result,
                    hookValue, pc, pending >>

\* the platform's output devices change to ds
SetDevices(ds) ==
    /\ created
    /\ ds # devices
    /\ devices' = ds
    /\ calls' = << >>
    /\ sent' = << >>
    /\ received' = NoneReceived
    /\ Did("setDevices")
    /\ UNCHANGED << hookState, handled, hookQueue, props, onOptionChange,
                    platform, created, audioManager, fault, deviceCallback,
                    routeChangeObserver, registered, listeners, events, result,
                    hookValue, pc, pending >>

\* notification kinds the platform raises
NotifyKinds(p) ==
    IF p = "android" THEN {"onAudioDevicesAdded", "onAudioDevicesRemoved"}
    ELSE {"routeChangeNotification"}

\* a plausible slip: only onAudioDevicesAdded is overridden to call onChange()
Notify_addedOnly(kind) ==
    /\ created
    /\ UNCHANGED listeners
    /\ sendEvent(IF kind = "onAudioDevicesRemoved" THEN << >>
                 ELSE Repeat(currentRoute, Cardinality(registered)))
    /\ calls' = << >>
    /\ Did(kind)
    /\ UNCHANGED << hookState, handled, hookQueue, props, onOptionChange,
                    platform, created, audioManager, fault, deviceCallback,
                    routeChangeObserver, registered, devices, result, hookValue,
                    pc, pending >>

\* a plausible slip: a notification whose route equals the last one is dropped
Notify_dedup(kind) ==
    /\ created
    /\ UNCHANGED listeners
    /\ sendEvent(IF events # << >> /\ events[Len(events)] = currentRoute
                 THEN << >>
                 ELSE Repeat(currentRoute, Cardinality(registered)))
    /\ calls' = << >>
    /\ Did(kind)
    /\ UNCHANGED << hookState, handled, hookQueue, props, onOptionChange,
                    platform, created, audioManager, fault, deviceCallback,
                    routeChangeObserver, registered, devices, result, hookValue,
                    pc, pending >>

\* the platform raises a notification: every registered callback runs
\* onChange() / handleRouteChange(_), each sending one event
Notify(kind) ==
    /\ created
    /\ UNCHANGED listeners
    /\ sendEvent(Repeat(currentRoute, Cardinality(registered)))
    /\ calls' = << >>
    /\ Did(kind)
    /\ UNCHANGED << hookState, handled, hookQueue, props, onOptionChange,
                    platform, created, audioManager, fault, deviceCallback,
                    routeChangeObserver, registered, devices, result, hookValue,
                    pc, pending >>

\* the observer's start() invoked on its own
StartCall ==
    /\ created
    /\ Cardinality(registered) < MaxRegs
    /\ startObservingRouteChanges
    /\ UNCHANGED listeners
    /\ sendEvent(<< >>)
    /\ Did("start")
    /\ UNCHANGED << hookState, handled, hookQueue, props, onOptionChange,
                    platform, created, audioManager, fault, devices, result,
                    hookValue, pc, pending >>

\* the observer's stop() invoked on its own
StopCall ==
    /\ created
    /\ stopObservingRouteChanges
    /\ UNCHANGED listeners
    /\ sendEvent(<< >>)
    /\ Did("stop")
    /\ UNCHANGED << hookState, handled, hookQueue, props, onOptionChange,
                    platform, created, audioManager, fault, devices, result,
                    hookValue, pc, pending >>

----------------------------------------------------------------------------
(* Specifications.                                                         *)

\* the module object right after construction
Init ==
    /\ platform \in Platforms
    /\ created = (platform = "ios")
    /\ audioManager = FALSE
    /\ fault = FALSE
    /\ deviceCallback = Null
    /\ routeChangeObserver = Null
    /\ registered = {}
    /\ listeners = {}
    /\ devices \in DeviceScenarios(platform)
    /\ events = << >>
    /\ result = "none"
    /\ lastOp = "none"
    /\ prevOp = "none"
    /\ calls = << >>
    /\ sent = << >>
    /\ received = NoneReceived
    /\ hookValue = NotRendered
    /\ pc = "idle"
    /\ pending = << >>
    /\ handled = << >>
    /\ props = ExpoAudioRouteViewProps
    /\ onOptionChange = << >>
    /\ hookQueue = << >>
    /\ hookState = NoState

\* the application driving the module through the bridge
Next ==
    \/ \E available \in BOOLEAN : OnCreate(available)
    \/ GetCurrentRouteAsync
    \/ \E l \in ListenerIds : AddListener(l)
    \/ \E l \in ListenerIds : RemoveListener(l)
    \/ \E ds \in DeviceScenarios(platform) : SetDevices(ds)
    \/ \E kind \in NotifyKinds(platform) : Notify(kind)

Spec == Init /\ [][Next]_vars

\* the observer's start() and stop() exercised directly, next to the bridge
NextObserver ==
    \/ \E available \in BOOLEAN : OnCreate(available)
    \/ StartCall
    \/ StopCall
    \/ \E l \in ListenerIds : AddListener(l)
    \/ \E l \in ListenerIds : RemoveListener(l)
    \/ \E kind \in NotifyKinds(platform) : Notify(kind)

SpecObserver == Init /\ [][NextObserver]_vars

\* the classifier applied to every device collection up to MaxDevices
InitClassifier ==
    /\ platform \in Platforms
    /\ created = TRUE
    /\ audioManager = (platform = "android")
    /\ fault = FALSE
    /\ deviceCallback = Null
    /\ routeChangeObserver = Null
    /\ registered = {}
    /\ listeners = {}
    /\ devices \in SeqsUpTo(DeviceTypes(platform), MaxDevices)
    /\ events = << >>
    /\ result = "none"
    /\ lastOp = "none"
    /\ prevOp = "none"
    /\ calls = << >>
    /\ sent = << >>
    /\ received = NoneReceived
    /\ hookValue = NotRendered
    /\ pc = "idle"
    /\ pending = << >>
    /\ handled = << >>
    /\ props = ExpoAudioRouteViewProps
    /\ onOptionChange = << >>
    /\ hookQueue = << >>
    /\ hookState = NoState

NextClassifier == GetCurrentRouteAsync

SpecClassifier == InitClassifier /\ [][NextClassifier]_vars

----------------------------------------------------------------------------
(* Properties of the route classifier (checked under SpecClassifier).      *)

\* the bucket the classifier of platform p files type tag t under
BucketOf(p, t) ==
    IF p = "android"
    THEN IF t \in wiredTypes THEN "wiredHeadset"
         ELSE IF t \in bluetoothTypes THEN "bluetooth"
         ELSE IF t \in speakerTypes THEN "speaker"
         ELSE "unknown"
    ELSE IF t \in {"headphones", "headsetMic"} THEN "wiredHeadset"
         ELSE IF t \in {"bluetoothA2DP", "bluetoothLE", "bluetoothHFP"} THEN "bluetooth"
         ELSE IF t = "builtInSpeaker" THEN "speaker"
         ELSE "unknown"

\* the buckets that hold at least one of the current devices
BucketsPresent ==
    {BucketOf(platform, devices[i]) : i \in 1..Len(devices)} \ {"unknown"}

\* the fixed order wired > bluetooth > speaker
HighestPriority(B) ==
    IF "wiredHeadset" \in B THEN "wiredHeadset"
    ELSE IF "bluetooth" \in B THEN "bluetooth"
    ELSE IF "speaker" \in B THEN "speaker"
    ELSE "unknown"

Queried == lastOp = "getCurrentRouteAsync"

\* C1: whenever the devices fall into two or more of the buckets wired,
\* bluetooth, speaker, the classifier returns the highest-priority bucket
\* present (wired > bluetooth > speaker), whatever the devices' order.
\* A device's bucket is the one the platform's own classifier files it under.
C1_PriorityOrder ==
    (Queried /\ Cardinality(BucketsPresent) >= 2)
        => result = HighestPriority(BucketsPresent)

\* C2: for every device collection the classifier returns one of the four
\* AudioRoute values and raises no fault.
C2_Totality ==
    Queried => (result \in AudioRoute /\ ~fault)

\* C2 witness: a collection holding only unrecognized types was classified.
C2_Witness ==
    /\ Queried
    /\ platform = "android"
    /\ devices = << "TYPE_HDMI", "TYPE_BLE_HEADSET" >>
    /\ result \in AudioRoute

\* C10: the classifier returns unknown for the empty collection and for a
\* collection none of whose devices falls into a bucket, without a fault.
C10_UnknownFallback ==
    (Queried /\ BucketsPresent = {}) => (result = "unknown" /\ ~fault)

\* C10 witness: a non-empty collection without any bucketed device was
\* classified as unknown.
C10_Witness ==
    /\ Queried
    /\ Len(devices) >= 2
    /\ BucketsPresent = {}
    /\ result = "unknown"
    /\ platform = "ios"

----------------------------------------------------------------------------
(* Properties of the observer's start() and stop() (SpecObserver).         *)

\* the platform service the observer registers with was acquired
ServiceAcquired == platform = "android" => audioManager

\* C3: after start() was called twice in a row (the platform service having
\* been acquired), exactly one registration is active, the second call made
\* no platform call, and the stored handle is that one registration.
C3_IdempotentStart ==
    (lastOp = "start" /\ prevOp = "start" /\ ServiceAcquired)
        => /\ Cardinality(registered) = 1
           /\ calls = << >>
           /\ Handle \in registered

\* C4: at most one callback is registered with the platform, and one is
\* registered exactly when the stored handle is non-null.
C4_SingleRegistration ==
    /\ Cardinality(registered) <= 1
    /\ (Cardinality(registered) = 1) <=> (Handle # Null)

\* C5: after one or more start() calls followed by a stop() call no
\* registration of the module remains and the handle is cleared.
C5_NoRegistrationLeak ==
    (lastOp = "stop" /\ prevOp = "start")
        => (registered = {} /\ Handle = Null)

\* C6: stop() unregisters exactly when a handle is stored, and then clears
\* it; a stop() that finds no handle makes no platform call, raises no fault
\* and leaves the handle null.
C6_IdempotentStop ==
    [][ StopCall =>
          /\ Handle' = Null
          /\ fault' = fault
          /\ IF Handle # Null
             THEN /\ calls' = << [call |-> "unregister", id |-> Handle] >>
                  /\ registered' = registered \ {Handle}
             ELSE /\ calls' = << >>
                  /\ registered' = registered ]_vars

\* C6 witness: stop() ran twice in a row after a start; the second made no
\* platform call and the observer is idle.
C6_Witness ==
    /\ lastOp = "stop"
    /\ prevOp = "stop"
    /\ ServiceAcquired
    /\ calls = << >>
    /\ Handle = Null
    /\ registered = {}

----------------------------------------------------------------------------
(* Properties of the bridge surface (Spec).                                *)

Notified == lastOp \in NotifyKinds(platform)

\* C7: the subscription of the first listener sends exactly one event, whose
\* route is the classifier's result for the devices at that moment.
C7_ImmediateEmission ==
    (lastOp = "addListener" /\ Cardinality(listeners) = 1)
        => sent = << currentRoute >>

\* C7 witness: the first listener subscribed before any notification fired
\* and one event carrying the current route was sent.
C7_Witness ==
    /\ lastOp = "addListener"
    /\ prevOp \in {"none", "onCreate"}
    /\ Cardinality(listeners) = 1
    /\ devices # << >>
    /\ sent = << "speaker" >>
    /\ events = sent

\* C8: while the observer is active every platform notification, added or
\* removed alike, sends exactly one event carrying the re-classified route.
C8_EventForwarding ==
    (Notified /\ Handle # Null) => sent = << currentRoute >>

\* C8 witness: an added and then a removed notification were handled while
\* observing, and each sent one event.
C8_Witness ==
    /\ lastOp = "onAudioDevicesRemoved"
    /\ prevOp = "onAudioDevicesAdded"
    /\ Handle # Null
    /\ Len(sent) = 1
    /\ Len(events) = 3

\* C9: once the only listener is removed, a platform notification sends no
\* event and no registration of the module remains.
C9_NoEventsWhenIdle ==
    (Notified /\ listeners = {})
        => (sent = << >> /\ registered = {} /\ Handle = Null)

\* C9 witness: a notification fired right after the only listener was
\* removed and nothing was sent.
C9_Witness ==
    /\ Notified
    /\ prevOp = "removeListener"
    /\ listeners = {}
    /\ ServiceAcquired
    /\ sent = << >>
    /\ events # << >>


----------------------------------------------------------------------------
(* Cross-platform bucket table (SpecClassifier).                           *)

\* the logical device types of the bucket table
LogicalTypes == {"wiredHeadphones", "wiredHeadset", "usbHeadset",
                 "bluetoothA2DP", "bluetoothLE", "bluetoothHFP",
                 "builtInSpeaker", "builtInEarpiece"}

\* the route the bucket table gives logical type t
TableRoute(t) ==
    IF t \in {"wiredHeadphones", "wiredHeadset", "usbHeadset"} THEN "wiredHeadset"
    ELSE IF t \in {"bluetoothA2DP", "bluetoothLE", "bluetoothHFP"} THEN "bluetooth"
    ELSE "speaker"

\* the AudioDeviceInfo type an Android output of logical type t carries
AndroidTag(t) ==
    CASE t = "wiredHeadphones" -> "TYPE_WIRED_HEADPHONES"
      [] t = "wiredHeadset"    -> "TYPE_WIRED_HEADSET"
      [] t = "usbHeadset"      -> "TYPE_USB_HEADSET"
      [] t = "bluetoothA2DP"   -> "TYPE_BLUETOOTH_A2DP"
      [] t = "bluetoothLE"     -> "TYPE_BLE_HEADSET"
      [] t = "bluetoothHFP"    -> "TYPE_BLUETOOTH_SCO"
      [] t = "builtInSpeaker"  -> "TYPE_BUILTIN_SPEAKER"
      [] t = "builtInEarpiece" -> "TYPE_BUILTIN_EARPIECE"

\* the AVAudioSession port an iOS output of logical type t carries
IOSTag(t) ==
    CASE t = "wiredHeadphones" -> "headphones"
      [] t = "wiredHeadset"    -> "headphones"
      [] t = "usbHeadset"      -> "usbAudio"
      [] t = "bluetoothA2DP"   -> "bluetoothA2DP"
      [] t = "bluetoothLE"     -> "bluetoothLE"
      [] t = "bluetoothHFP"    -> "bluetoothHFP"
      [] t = "builtInSpeaker"  -> "builtInSpeaker"
      [] t = "builtInEarpiece" -> "builtInReceiver"

PlatformTag(p, t) == IF p = "android" THEN AndroidTag(t) ELSE IOSTag(t)

\* C11: a single device of any logical type of the bucket table is classified
\* as the table says, and the Android and the iOS classifier agree on it.
C11_BucketEquivalence ==
    \A t \in LogicalTypes :
        (Queried /\ devices = << PlatformTag(platform, t) >>)
            => /\ result = TableRoute(t)
               /\ currentRouteAndroid(TRUE, << AndroidTag(t) >>)
                     = currentRouteIOS(<< IOSTag(t) >>)


----------------------------------------------------------------------------
(* Degraded mode: the Android audio service was not acquired.              *)

\* the Android module was created without obtaining the AudioManager
ServiceMissing == platform = "android" /\ created /\ ~audioManager

\* C12: when the audio service cannot be acquired at creation, no fault is
\* raised at any step and every getCurrentRouteAsync resolves to unknown.
C12_SilentDegrade ==
    ServiceMissing => (~fault /\ (Queried => result = "unknown"))


\* C13: without the audio service every start() registers nothing, leaves the
\* handle null, makes no platform call, raises no fault and does not acquire
\* the service.
C13_StartNoOpWithoutService ==
    [][ (StartCall /\ ServiceMissing) =>
          /\ registered' = {}
          /\ deviceCallback' = Null
          /\ calls' = << >>
          /\ fault' = fault
          /\ audioManager' = audioManager ]_vars

\* C13 witness: start() ran twice without the service and nothing is registered.
C13_Witness ==
    /\ ServiceMissing
    /\ lastOp = "start"
    /\ prevOp = "start"
    /\ registered = {}
    /\ deviceCallback = Null
    /\ calls = << >>


----------------------------------------------------------------------------
(* Further properties of the bridge surface (Spec).                        *)

\* C14: every getCurrentRouteAsync resolves to the classifier's result for the
\* devices at the time of the call, whatever was returned or sent before and
\* whether or not the observer is active.
C14_NoCaching ==
    Queried => result = currentRoute

\* C14 witness: after events for another route were sent and the devices
\* changed, a query with no listener returned the new route.
C14_Witness ==
    /\ Queried
    /\ prevOp = "setDevices"
    /\ listeners = {}
    /\ events # << >>
    /\ events[Len(events)] = "speaker"
    /\ result = "wiredHeadset"


\* C15: with the platform service available, the observer is active (exactly
\* one platform registration, held by the handle) iff there is at least one
\* subscriber; the registration is made on the 0 -> 1 addition, released on the
\* 1 -> 0 removal, and no other addition or removal calls the platform.
C15_ObserverFollowsSubscribers ==
    (created /\ ServiceAcquired) =>
        /\ (listeners # {}) <=> (Cardinality(registered) = 1 /\ Handle # Null)
        /\ (listeners = {}) <=> (registered = {} /\ Handle = Null)
        /\ Handle # Null => registered = {Handle}
        /\ lastOp = "addListener" =>
             IF Cardinality(listeners) = 1
             THEN calls = << [call |-> "register", id |-> Handle] >>
             ELSE calls = << >>
        /\ lastOp = "removeListener" =>
             IF listeners = {}
             THEN Len(calls) = 1 /\ calls[1].call = "unregister"
             ELSE calls = << >>

\* C15 witness: a second subscriber was added and removed again without any
\* platform call, the first one still holding the single registration.
C15_Witness ==
    /\ created /\ ServiceAcquired
    /\ prevOp = "addListener"
    /\ lastOp = "removeListener"
    /\ Cardinality(listeners) = 1
    /\ Cardinality(registered) = 1
    /\ calls = << >>


\* C16: every notification handled while the observer is registered, and
\* every first subscription, hands one event with the current route to every
\* listener subscribed at that moment; two consecutive notifications
\* classifying to the same route yield two events with the same route
\* (nothing is filtered against the previous one).
C16_FanOutNoDedup ==
    /\ (Notified /\ Handle # Null) =>
          \A l \in listeners : received[l] = << currentRoute >>
    /\ (lastOp = "addListener" /\ Cardinality(listeners) = 1) =>
          \A l \in listeners : received[l] = << currentRoute >>
    /\ (Notified /\ prevOp \in NotifyKinds(platform) /\ Handle # Null) =>
          /\ sent = << currentRoute >>
          /\ Len(events) >= 2
          /\ events[Len(events)] = currentRoute
          /\ events[Len(events) - 1] = currentRoute

\* C16 witness: two listeners, two notifications in a row for the same
\* devices, both listeners handed the second, identical event.
C16_Witness ==
    /\ Notified
    /\ prevOp \in NotifyKinds(platform)
    /\ listeners = ListenerIds
    /\ \A l \in ListenerIds : received[l] = << currentRoute >>
    /\ Len(events) >= 2
    /\ events[Len(events)] = events[Len(events) - 1]


----------------------------------------------------------------------------
(* Web fallback: ExpoAudioRouteModule.web.ts.                              *)

\* a plausible slip: the fallback reports a desktop browser's default output
WebGetCurrentRouteAsync_speaker ==
    /\ platform = "web"
    /\ result' = "speaker"
    /\ calls' = << >>
    /\ sent' = << >>
    /\ received' = NoneReceived
    /\ Did("getCurrentRouteAsync")
    /\ UNCHANGED << hookState, handled, hookQueue, props, onOptionChange,
                    platform, created, audioManager, fault, deviceCallback,
                    routeChangeObserver, registered, listeners, devices, events,
                    hookValue, pc, pending >>

\* async getCurrentRouteAsync() { return Promise.resolve("unknown") }
WebGetCurrentRouteAsync ==
    /\ platform = "web"
    /\ result' = "unknown"
    /\ calls' = << >>
    /\ sent' = << >>
    /\ received' = NoneReceived
    /\ Did("getCurrentRouteAsync")
    /\ UNCHANGED << hookState, handled, hookQueue, props, onOptionChange,
                    platform, created, audioManager, fault, deviceCallback,
                    routeChangeObserver, registered, listeners, devices, events,
                    hookValue, pc, pending >>

\* function useAudioRouteChangedEvent() { return { route: "unknown" } }
WebUseAudioRouteChangedEvent ==
    /\ platform = "web"
    /\ hookValue' = [route |-> "unknown"]
    /\ calls' = << >>
    /\ sent' = << >>
    /\ received' = NoneReceived
    /\ Did("useAudioRouteChangedEvent")
    /\ UNCHANGED << hookState, handled, hookQueue, props, onOptionChange,
                    platform, created, audioManager, fault, deviceCallback,
                    routeChangeObserver, registered, listeners, devices, events,
                    result, pc, pending >>

\* the web module is a plain NativeModule emitter: a listener is recorded,
\* no observer is started and nothing is emitted
WebAddListener(l) ==
    /\ platform = "web"
    /\ l \notin listeners
    /\ listeners' = listeners \cup {l}
    /\ sendEvent(<< >>)
    /\ calls' = << >>
    /\ Did("addListener")
    /\ UNCHANGED << hookState, handled, hookQueue, props, onOptionChange,
                    platform, created, audioManager, fault, deviceCallback,
                    routeChangeObserver, registered, devices, result, hookValue,
                    pc, pending >>

WebRemoveListener(l) ==
    /\ platform = "web"
    /\ l \in listeners
    /\ listeners' = listeners \ {l}
    /\ sendEvent(<< >>)
    /\ calls' = << >>
    /\ Did("removeListener")
    /\ UNCHANGED << hookState, handled, hookQueue, props, onOptionChange,
                    platform, created, audioManager, fault, deviceCallback,
                    routeChangeObserver, registered, devices, result, hookValue,
                    pc, pending >>

\* the module as registered by registerWebModule
InitWeb ==
    /\ platform = "web"
    /\ created = TRUE
    /\ audioManager = FALSE
    /\ fault = FALSE
    /\ deviceCallback = Null
    /\ routeChangeObserver = Null
    /\ registered = {}
    /\ listeners = {}
    /\ devices = << >>
    /\ events = << >>
    /\ result = "none"
    /\ lastOp = "none"
    /\ prevOp = "none"
    /\ calls = << >>
    /\ sent = << >>
    /\ received = NoneReceived
    /\ hookValue = NotRendered
    /\ pc = "idle"
    /\ pending = << >>
    /\ handled = << >>
    /\ props = ExpoAudioRouteViewProps
    /\ onOptionChange = << >>
    /\ hookQueue = << >>
    /\ hookState = NoState

NextWeb ==
    \/ WebGetCurrentRouteAsync
    \/ WebUseAudioRouteChangedEvent
    \/ \E l \in ListenerIds : WebAddListener(l)
    \/ \E l \in ListenerIds : WebRemoveListener(l)

SpecWeb == InitWeb /\ [][NextWeb]_vars

\* C17: on the web, every getCurrentRouteAsync resolves to unknown and every
\* useAudioRouteChangedEvent returns {route: unknown}, whatever happened
\* before; neither yields another route, fails or emits.
C17_WebFallback ==
    platform = "web" =>
        /\ Queried => result = "unknown"
        /\ lastOp = "useAudioRouteChangedEvent" => hookValue = [route |-> "unknown"]
        /\ result \in {"none", "unknown"}
        /\ hookValue \in {NotRendered, [route |-> "unknown"]}
        /\ ~fault
        /\ events = << >>

\* C17 witness: with a listener attached and the hook already rendered, a
\* repeated query resolved to unknown again.
C17_Witness ==
    /\ platform = "web"
    /\ Queried
    /\ prevOp = "getCurrentRouteAsync"
    /\ listeners # {}
    /\ result = "unknown"
    /\ hookValue = [route |-> "unknown"]

----------------------------------------------------------------------------
(* OnStartObserving step by step, with platform notifications in flight.   *)

\* addListener as the framework runs it: the listener is recorded, and the
\* first one makes OnStartObserving run next
Subscribe(l) ==
    /\ created
    /\ pc = "idle"
    /\ l \notin listeners
    /\ listeners' = listeners \cup {l}
    /\ pc' = IF listeners = {} THEN "subscribed" ELSE "idle"
    /\ sendEvent(<< >>)
    /\ calls' = << >>
    /\ Did("addListener")
    /\ UNCHANGED << hookState, handled, hookQueue, props, onOptionChange,
                    platform, created, audioManager, fault, deviceCallback,
                    routeChangeObserver, registered, devices, result, hookValue,
                    pending >>

\* OnStartObserving, first statement: sendEvent(route = currentRoute())
OnStartObservingEmit ==
    /\ pc = "subscribed"
    /\ pc' = "emitted"
    /\ UNCHANGED listeners
    /\ sendEvent(<< currentRoute >>)
    /\ calls' = << >>
    /\ Did("sendEvent")
    /\ UNCHANGED << hookState, handled, hookQueue, props, onOptionChange,
                    platform, created, audioManager, fault, deviceCallback,
                    routeChangeObserver, registered, devices, result, hookValue,
                    pending >>

\* id of the next notification the platform raises
NextId == Len(handled) + Len(pending) + 1

\* the platform queues a notification for the registered callback; both
\* registrations name a serial queue (Android: handler null, the main looper;
\* iOS: queue .main), so notifications wait oldest first
Raise(kind) == Append(pending, [id |-> NextId, kind |-> kind])

\* OnStartObserving, second statement: startObservingRouteChanges().
\* On Android registerAudioDeviceCallback makes the platform post a first
\* onAudioDevicesAdded for the devices already present
OnStartObservingRegister ==
    /\ pc = "emitted"
    /\ pc' = "idle"
    /\ startObservingRouteChanges
    /\ pending' = IF platform = "android" /\ registered' # registered
                  THEN Raise("onAudioDevicesAdded")
                  ELSE pending
    /\ Len(pending') <= MaxPending
    /\ Len(handled) + Len(pending') <= MaxRaised
    /\ UNCHANGED listeners
    /\ sendEvent(<< >>)
    /\ Did("startObservingRouteChanges")
    /\ UNCHANGED << hookState, handled, hookQueue, props, onOptionChange,
                    platform, created, audioManager, fault, devices, result,
                    hookValue >>

\* remove() of a subscription, once OnStartObserving has returned
Unsubscribe(l) ==
    /\ pc = "idle"
    /\ RemoveListener(l)

\* the device collections of the walk-through: nothing attached, the built-in
\* speaker, wired headphones plugged in
RaceScenarios(p) ==
    IF p = "android"
    THEN { << >>, << "TYPE_BUILTIN_SPEAKER" >>, << "TYPE_WIRED_HEADPHONES" >> }
    ELSE { << >>, << "builtInSpeaker" >>, << "headphones" >> }

\* the platform's devices change; the platform raises a notification iff a
\* callback / observer is registered at that moment
DeviceChange(ds, kind) ==
    /\ created
    /\ ds # devices
    /\ devices' = ds
    /\ pending' = IF registered # {} THEN Raise(kind) ELSE pending
    /\ Len(pending') <= MaxPending
    /\ Len(handled) + Len(pending') <= MaxRaised
    /\ calls' = << >>
    /\ sent' = << >>
    /\ received' = NoneReceived
    /\ Did("setDevices")
    /\ UNCHANGED << hookState, handled, hookQueue, props, onOptionChange,
                    platform, created, audioManager, fault, deviceCallback,
                    routeChangeObserver, registered, listeners, events, result,
                    hookValue, pc >>

\* a plausible slip: the callback is registered without a serial queue, so
\* waiting notifications are handled in any order
Deliver_anyOrder(kind) ==
    /\ \E i \in 1..Len(pending) :
          /\ pending[i].kind = kind
          /\ pending' = SubSeq(pending, 1, i - 1)
                        \o SubSeq(pending, i + 1, Len(pending))
          /\ handled' = Append(handled, pending[i].id)
    /\ UNCHANGED listeners
    /\ sendEvent(Repeat(currentRoute, Cardinality(registered)))
    /\ calls' = << >>
    /\ Did(kind)
    /\ UNCHANGED << hookState, hookQueue, props, onOptionChange, platform,
                    created, audioManager, fault, deviceCallback,
                    routeChangeObserver, registered, devices, result, hookValue,
                    pc >>

\* the oldest waiting notification is handled: onChange() /
\* handleRouteChange(_:) run in every callback still registered
Deliver(kind) ==
    /\ pending # << >>
    /\ Head(pending).kind = kind
    /\ pending' = Tail(pending)
    /\ handled' = Append(handled, Head(pending).id)
    /\ UNCHANGED listeners
    /\ sendEvent(Repeat(currentRoute, Cardinality(registered)))
    /\ calls' = << >>
    /\ Did(kind)
    /\ UNCHANGED << hookState, hookQueue, props, onOptionChange, platform,
                    created, audioManager, fault, deviceCallback,
                    routeChangeObserver, registered, devices, result, hookValue,
                    pc >>

NextRace ==
    \/ \E available \in BOOLEAN : OnCreate(available)
    \/ GetCurrentRouteAsync
    \/ \E l \in ListenerIds : Subscribe(l)
    \/ OnStartObservingEmit
    \/ OnStartObservingRegister
    \/ \E l \in ListenerIds : Unsubscribe(l)
    \/ \E ds \in RaceScenarios(platform) :
          \E kind \in NotifyKinds(platform) : DeviceChange(ds, kind)
    \/ \E kind \in NotifyKinds(platform) : Deliver(kind)

InitRace == Init /\ devices \in RaceScenarios(platform)

SpecRace == InitRace /\ [][NextRace]_vars

\* the step just taken started or stopped the observer
StartOrStop == lastOp \in {"startObservingRouteChanges", "removeListener"}

\* C18: notifications are handled in the order the platform raised them,
\* none overtaking an older one, and each one handled while the observer is
\* registered appends, after everything emitted before it, exactly one event
\* whose route is the classifier's result for the devices at the moment of
\* handling (not at the moment the notification was raised).
C18_ArrivalOrderFreshness ==
    [][ lastOp' \in NotifyKinds(platform) =>
          /\ Len(handled') = Len(handled) + 1
          /\ \A i \in 1..Len(handled') : handled'[i] = i
          /\ Handle # Null =>
                /\ sent' = << currentRoute >>
                /\ events' = Window(Append(events, currentRoute)) ]_vars

\* C18 witness: subscribed with only the built-in speaker; two notifications
\* were then waiting at once, wired headphones being plugged in meanwhile;
\* both were handled, oldest first, each carrying the route at its handling.
C18_Witness ==
    /\ handled = << 1, 2 >>
    /\ lastOp \in NotifyKinds(platform)
    /\ prevOp \in NotifyKinds(platform)
    /\ Handle # Null
    /\ events = << "speaker", "wiredHeadset", "wiredHeadset" >>
    /\ sent = << "wiredHeadset" >>

\* C19: the handle, the platform's registrations and the subscriber set are
\* left alone by queries, by the synthetic emission, by device changes and by
\* the handling of notifications; the handle changes only in a start or stop,
\* together with the matching platform call.
C19_HandleOwnership ==
    [][ /\ lastOp' \in ({"getCurrentRouteAsync", "sendEvent", "setDevices"}
                          \cup NotifyKinds(platform)) =>
            UNCHANGED << deviceCallback, routeChangeObserver, registered, listeners >>
        /\ << deviceCallback, routeChangeObserver >>' # << deviceCallback, routeChangeObserver >> =>
            /\ StartOrStop'
            /\ Len(calls') = 1
            /\ IF Handle' # Null
               THEN calls'[1] = [call |-> "register", id |-> Handle']
               ELSE calls'[1] = [call |-> "unregister", id |-> Handle]
        /\ registered' # registered => StartOrStop' ]_vars

\* C19 witness: with the observer active and a listener subscribed, a
\* notification was handled and then a query made; the handle is the one
\* registration throughout.
C19_Witness ==
    /\ Queried
    /\ prevOp \in NotifyKinds(platform)
    /\ listeners # {}
    /\ Handle # Null
    /\ registered = {Handle}
    /\ pc = "idle"
    /\ events # << >>

\* C20: for a subscribed listener, once OnStartObserving has returned and
\* every raised notification has been handled, the last event emitted carries
\* the classifier's result for the current devices.
C20_EventualConsistency ==
    (created /\ ServiceAcquired /\ listeners # {} /\ pc = "idle" /\ pending = << >>) =>
        /\ events # << >>
        /\ events[Len(events)] = currentRoute


----------------------------------------------------------------------------
(* The event hook: useAudioRouteChangedEvent = useEvent(module, event, init). *)

\* const initialRoute: AudioRoute = "unknown"
initialRoute == "unknown"

\* the listener that the mounted hook subscribes
HookListener == 1

\* useEvent's state: the payload of the latest event received, else unchanged
useEvent(state, rs) ==
    IF rs = << >> THEN state ELSE [route |-> rs[Len(rs)]]

\* a component calling the hook renders for the first time: useEvent returns
\* the initial value, which is also its state; nothing is subscribed yet
HookRender ==
    /\ created
    /\ hookValue = NotRendered
    /\ HookListener \notin listeners
    /\ hookValue' = [route |-> initialRoute]
    /\ hookState' = [route |-> initialRoute, dirty |-> FALSE]
    /\ calls' = << >>
    /\ sent' = << >>
    /\ received' = NoneReceived
    /\ Did("hookRender")
    /\ UNCHANGED << handled, hookQueue, props, onOptionChange, platform,
                    created, audioManager, fault, deviceCallback,
                    routeChangeObserver, registered, listeners, devices, events,
                    result, pc, pending >>

\* useEvent's effect runs after that render: addListener, which makes
\* OnStartObserving run iff it is the first listener; an event sent to the
\* hook's listener is queued for JavaScript
HookEffect ==
    /\ hookValue # NotRendered
    /\ HookListener \notin listeners
    /\ listeners' = listeners \cup {HookListener}
    /\ IF listeners = {}
       THEN OnStartObserving
       ELSE /\ sendEvent(<< >>)
            /\ calls' = << >>
            /\ UNCHANGED << deviceCallback, routeChangeObserver, registered >>
    /\ hookQueue' = hookQueue \o received'[HookListener]
    /\ Did("useEffect")
    /\ UNCHANGED << hookState, handled, props, onOptionChange, platform,
                    created, audioManager, fault, devices, result, hookValue,
                    pc, pending >>

\* the hook's listener handles the oldest queued event: it only stores the
\* payload (setState) and returns to the event loop; what the hook last
\* returned stays as it is until React renders again
HookReceive ==
    /\ HookListener \in listeners
    /\ hookQueue # << >>
    /\ hookState' = [route |-> useEvent([route |-> hookState.route],
                                         << Head(hookQueue) >>).route,
                     dirty |-> TRUE]
    /\ hookQueue' = Tail(hookQueue)
    /\ calls' = << >>
    /\ sent' = << >>
    /\ received' = [l \in ListenerIds |->
                      IF l = HookListener THEN << Head(hookQueue) >> ELSE << >>]
    /\ Did("hookReceive")
    /\ UNCHANGED << handled, props, onOptionChange, platform, created,
                    audioManager, fault, deviceCallback, routeChangeObserver,
                    registered, listeners, devices, events, result, hookValue,
                    pc, pending >>

\* React renders the component again after a setState: the hook returns the
\* state stored last, whatever number of events were stored since the
\* previous render
HookRerender ==
    /\ hookValue # NotRendered
    /\ hookState.dirty
    /\ hookValue' = [route |-> hookState.route]
    /\ hookState' = [hookState EXCEPT !.dirty = FALSE]
    /\ calls' = << >>
    /\ sent' = << >>
    /\ received' = NoneReceived
    /\ Did("hookRerender")
    /\ UNCHANGED << handled, hookQueue, props, onOptionChange, platform,
                    created, audioManager, fault, deviceCallback,
                    routeChangeObserver, registered, listeners, devices, events,
                    result, pc, pending >>

\* the component unmounts: the effect's cleanup removes the subscription and
\* events still queued for it are dropped
HookUnmount ==
    /\ HookListener \in listeners
    /\ listeners' = listeners \ {HookListener}
    /\ IF listeners = {HookListener}
       THEN OnStopObserving
       ELSE /\ sendEvent(<< >>)
            /\ calls' = << >>
            /\ UNCHANGED << deviceCallback, routeChangeObserver, registered >>
    /\ hookValue' = NotRendered
    /\ hookState' = NoState
    /\ hookQueue' = << >>
    /\ Did("unmount")
    /\ UNCHANGED << handled, props, onOptionChange, platform,
                    created, audioManager, fault, devices, result, pc, pending
                    >>

\* a platform notification is handled natively; the event for the hook's
\* listener, if subscribed, is queued for JavaScript
HookNotify(kind) ==
    /\ created
    /\ Len(hookQueue) < MaxInFlight
    /\ UNCHANGED listeners
    /\ sendEvent(Repeat(currentRoute, Cardinality(registered)))
    /\ hookQueue' = hookQueue \o received'[HookListener]
    /\ calls' = << >>
    /\ Did(kind)
    /\ UNCHANGED << hookState, handled, props, onOptionChange, platform,
                    created, audioManager, fault, deviceCallback,
                    routeChangeObserver, registered, devices, result, hookValue,
                    pc, pending >>

\* an application with one component using the hook, next to listeners added
\* by hand with addListener
NextHook ==
    \/ \E available \in BOOLEAN : OnCreate(available)
    \/ GetCurrentRouteAsync
    \/ HookRender
    \/ HookEffect
    \/ HookReceive
    \/ HookRerender
    \/ HookUnmount
    \/ \E l \in ListenerIds \ {HookListener} : AddListener(l)
    \/ \E l \in ListenerIds \ {HookListener} : RemoveListener(l)
    \/ \E ds \in DeviceScenarios(platform) : SetDevices(ds)
    \/ \E kind \in NotifyKinds(platform) : HookNotify(kind)

SpecHook == Init /\ [][NextHook]_vars

\* the hook's listener is subscribed
Mounted == HookListener \in listeners

\* C21: the hook returns {route: unknown} until its first event is handled;
\* an event handled is stored as the hook's state and every render after it
\* returns the payload stored last; and mounting brings its value to the
\* current route: the subscription puts an event with the current route in
\* flight to the hook, or the value equals it already.
C21_HookTracksEvents ==
    /\ lastOp \in {"hookRender", "useEffect"} => hookValue = [route |-> initialRoute]
    /\ lastOp = "hookReceive" =>
           /\ hookState.dirty
           /\ << hookState.route >> = received[HookListener]
    /\ (hookValue # NotRendered /\ ~hookState.dirty) =>
           hookValue = [route |-> hookState.route]
    /\ (Mounted /\ lastOp = "useEffect") =>
           \/ hookQueue = << currentRoute >>
           \/ hookValue = [route |-> currentRoute]
    /\ (Mounted /\ lastOp = "hookReceive" /\ prevOp = "useEffect") =>
           hookState.route = currentRoute

\* C22: an event is sent outside the handling of a platform notification
\* exactly in the steps that take the subscribers from none to one, one event
\* per such step (and, with the service available, exactly in the steps that
\* register the callback); a listener added while others exist triggers no
\* emission and is handed nothing.
C22_EmissionOncePerActivation ==
    [][ lastOp' \notin NotifyKinds(platform) =>
          /\ sent' # << >> <=> (listeners = {} /\ listeners' # {})
          /\ Len(sent') <= 1
          /\ ServiceAcquired => (sent' # << >> <=> (registered = {} /\ registered' # {}))
          /\ (lastOp' = "addListener" /\ listeners # {}) =>
                /\ sent' = << >>
                /\ \A l \in ListenerIds : received'[l] = << >>
                /\ events' = events ]_vars

\* C22 witness: a second listener was added right after the first; only the
\* first addition emitted.
C22_Witness ==
    /\ lastOp = "addListener"
    /\ prevOp = "addListener"
    /\ Cardinality(listeners) = 2
    /\ Len(events) = 1
    /\ sent = << >>
    /\ received = NoneReceived


\* C23 as stated: on Android without the audio service the first subscription
\* emits exactly one event, unknown, and no further event is ever emitted.
C23_Original ==
    ServiceMissing =>
        /\ Len(events) <= 1
        /\ listeners # {} => events = << "unknown" >>

\* C23: on Android without the audio service, every subscription that finds
\* no listener subscribed sends exactly one event, carrying unknown, whatever
\* devices are attached; nothing is registered, so nothing else, and no
\* notification in particular, ever sends an event.
C23_EmissionWithoutService ==
    ServiceMissing =>
        /\ (lastOp = "addListener" /\ Cardinality(listeners) = 1) =>
               sent = << "unknown" >>
        /\ sent # << >> => (lastOp = "addListener" /\ Cardinality(listeners) = 1)
        /\ Notified => sent = << >>
        /\ registered = {} /\ deviceCallback = Null
        /\ \A i \in 1..Len(events) : events[i] = "unknown"

\* C23 witness: without the service and with devices attached, a listener
\* subscribed (one event, unknown), left, and subscribed again (a second
\* event, unknown); a platform notification then sent nothing.
C23_Witness ==
    /\ ServiceMissing
    /\ Notified
    /\ prevOp = "addListener"
    /\ listeners # {}
    /\ devices # << >>
    /\ events = << "unknown", "unknown" >>
    /\ sent = << >>


----------------------------------------------------------------------------
(* Late delivery: a notification queued on the platform's delivery thread  *)
(* runs its callback whether or not the callback is still registered.      *)

\* onChange() / handleRouteChange(_:) of a queued notification runs: it
\* calls sendEvent(currentRoute()) without looking at the handle
DeliverQueued(kind) ==
    /\ pending # << >>
    /\ Head(pending).kind = kind
    /\ pending' = Tail(pending)
    /\ handled' = Append(handled, Head(pending).id)
    /\ UNCHANGED listeners
    /\ sendEvent(<< currentRoute >>)
    /\ calls' = << >>
    /\ Did(kind)
    /\ UNCHANGED << hookState, hookQueue, props, onOptionChange, platform,
                    created, audioManager, fault, deviceCallback,
                    routeChangeObserver, registered, devices, result, hookValue,
                    pc >>

\* the platform either drops a queued notification of a removed callback
\* (Deliver) or still runs it (DeliverQueued)
NextLate ==
    \/ NextRace
    \/ \E kind \in NotifyKinds(platform) : DeliverQueued(kind)

SpecLate == InitRace /\ [][NextLate]_vars

\* C24: once stopObservingRouteChanges has completed (handle cleared, nothing
\* registered), the handling of a platform notification sends no event, also
\* when the notification was queued before the stop.
C24_NoEventAfterStop ==
    (created /\ Notified /\ Handle = Null /\ registered = {}) => sent = << >>


\* C25: with the service available, every subscription of a first listener,
\* the first time or after any number of earlier cycles, registers one
\* callback anew and sends one event with the current route; every removal of
\* the last listener releases it; notifications send events while subscribed
\* and none while idle; there is never more than one registration.
C25_RestartableLifecycle ==
    [][ (created' /\ ServiceAcquired') =>
          /\ Cardinality(registered') <= 1
          /\ (lastOp' = "addListener" /\ listeners = {}) =>
                /\ registered = {}
                /\ Handle' # Null
                /\ registered' = {Handle'}
                /\ calls' = << [call |-> "register", id |-> Handle'] >>
                /\ sent' = << currentRoute' >>
          /\ (lastOp' = "removeListener" /\ listeners' = {}) =>
                /\ registered' = {}
                /\ Handle' = Null
                /\ calls' = << [call |-> "unregister", id |-> Handle] >>
          /\ lastOp' \in NotifyKinds(platform) =>
                sent' = IF listeners' # {} THEN << currentRoute' >> ELSE << >> ]_vars

\* C25 witness: a second cycle: after an earlier subscription had ended, a
\* listener subscribed again (new registration, new initial event) and a
\* notification was forwarded.
C25_Witness ==
    /\ created /\ ServiceAcquired
    /\ Notified
    /\ prevOp = "addListener"
    /\ Cardinality(listeners) = 1
    /\ Cardinality(registered) = 1
    /\ Len(events) = 3
    /\ sent = << currentRoute >>


----------------------------------------------------------------------------
(* The native segmented view: ExpoAudioRouteView (Compose / SwiftUI) and   *)
(* the App that feeds it the hook's route.                                 *)

\* const possibleRoutes = ["wiredHeadset", "bluetooth", "speaker", "unknown"]
possibleRoutes == << "wiredHeadset", "bluetooth", "speaker", "unknown" >>

\* a plausible slip: the position is counted from one
indexOf_oneBased(arr, x) ==
    IF \E i \in 1..Len(arr) : arr[i] = x
    THEN CHOOSE i \in 1..Len(arr) : arr[i] = x /\ \A j \in 1..(i - 1) : arr[j] # x
    ELSE -1

\* Array.prototype.indexOf: zero-based position of the first match, else -1
indexOf(arr, x) ==
    IF \E i \in 1..Len(arr) : arr[i] = x
    THEN (CHOOSE i \in 1..Len(arr) : arr[i] = x /\ \A j \in 1..(i - 1) : arr[j] # x) - 1
    ELSE -1

\* option lists JavaScript hands to the view
OptionLists == { << >>, << "speaker", "bluetooth" >>, possibleRoutes }

\* selectedIndex values JavaScript hands to the view with options opts:
\* absent, or a number in or just outside the range of opts
IndexValues(opts) == {NullIndex} \cup (-1 .. Len(opts))

\* positions of the segments drawn: options.forEachIndexed / enumerated()
Segments == 0 .. (Len(props.options) - 1)

\* Compose: selected = index == selectedIndex;
\* SwiftUI: the segment whose tag equals props.selectedIndex ?? 0
Selected(index) ==
    IF platform = "android"
    THEN index = props.selectedIndex
    ELSE index = (IF props.selectedIndex = NullIndex THEN 0 ELSE props.selectedIndex)

SelectedSegments == {index \in Segments : Selected(index)}

\* App renders with the hook returning route: selectedIndex = indexOf(route)
RenderApp(route) ==
    /\ hookValue' = [route |-> route]
    /\ props' = [options |-> possibleRoutes,
                 selectedIndex |-> indexOf(possibleRoutes, route)]
    /\ onOptionChange' = << >>
    /\ calls' = << >>
    /\ sent' = << >>
    /\ received' = NoneReceived
    /\ Did("render")
    /\ UNCHANGED << hookState, handled, hookQueue, platform, created,
                    audioManager, fault, deviceCallback, routeChangeObserver,
                    registered, listeners, devices, events, result, pc, pending
                    >>

\* JavaScript sets the view's props directly
SetProps(opts, idx) ==
    /\ props' = [options |-> opts, selectedIndex |-> idx]
    /\ props' # props
    /\ onOptionChange' = << >>
    /\ calls' = << >>
    /\ sent' = << >>
    /\ received' = NoneReceived
    /\ Did("setProps")
    /\ UNCHANGED << hookState, handled, hookQueue, platform, created,
                    audioManager, fault, deviceCallback, routeChangeObserver,
                    registered, listeners, devices, events, result, hookValue,
                    pc, pending >>

\* the user taps a segment. Compose: onClick of that SegmentedButton runs on
\* every tap. SwiftUI: the Picker calls the binding's set only with a new
\* selection, so a tap on the segment already shown selected dispatches nothing
Tap(index) ==
    /\ index \in Segments
    /\ onOptionChange' =
          IF platform = "ios" /\ index \in SelectedSegments
          THEN << >>
          ELSE << [index |-> index, value |-> props.options[index + 1]] >>
    /\ UNCHANGED props
    /\ calls' = << >>
    /\ sent' = << >>
    /\ received' = NoneReceived
    /\ Did("tap")
    /\ UNCHANGED << hookState, handled, hookQueue, platform, created,
                    audioManager, fault, deviceCallback, routeChangeObserver,
                    registered, listeners, devices, events, result, hookValue,
                    pc, pending >>

NextView ==
    \/ \E route \in AudioRoute : RenderApp(route)
    \/ \E opts \in OptionLists : \E idx \in IndexValues(opts) : SetProps(opts, idx)
    \/ \E index \in Segments : Tap(index)

SpecView == Init /\ [][NextView]_vars

\* C26: for every route the hook can return, the App's selectedIndex is the
\* route's position in [wiredHeadset, bluetooth, speaker, unknown], lies in
\* 0..3, and the view shows exactly one segment selected: the one labelled
\* with the route.
C26_RouteShownInView ==
    lastOp = "render" =>
        /\ hookValue.route \in AudioRoute
        /\ props.selectedIndex \in 0..3
        /\ props.options[props.selectedIndex + 1] = hookValue.route
        /\ SelectedSegments = {props.selectedIndex}
        /\ \A index \in SelectedSegments : props.options[index + 1] = hookValue.route

\* C26 witness: the hook returned speaker and the third segment is the one
\* selected.
C26_Witness ==
    /\ lastOp = "render"
    /\ hookValue = [route |-> "speaker"]
    /\ props.selectedIndex = 2
    /\ SelectedSegments = {2}

\* C27: a tap on segment i dispatches exactly one onOptionChange event
\* {index: i, value: options[i]} with i inside options, and leaves the props
\* alone; the selection shown changes only in steps where JavaScript sets the
\* props.
C27_ControlledView ==
    [][ /\ lastOp' = "tap" =>
            /\ Len(onOptionChange') = 1
            /\ onOptionChange'[1].index \in 0 .. (Len(props.options) - 1)
            /\ onOptionChange'[1].value = props.options[onOptionChange'[1].index + 1]
            /\ props' = props
            /\ SelectedSegments' = SelectedSegments
        /\ lastOp' # "tap" => onOptionChange' = << >>
        /\ SelectedSegments' # SelectedSegments => lastOp' \in {"render", "setProps"} ]_vars



----------------------------------------------------------------------------
(* The chapter 1 example module: setValueAsync emits onChange.             *)

\* strings handed to setValueAsync
Values == {"Hello World", "Goodbye"}

\* a plausible slip: the payload is a fixed greeting, not the argument
SetValueAsync_fixedPayload(value) ==
    /\ platform = "web"
    /\ UNCHANGED listeners
    /\ sendEvent(<< "Hello World" >>)
    /\ calls' = << [call |-> "setValueAsync", value |-> value] >>
    /\ Did("setValueAsync")
    /\ UNCHANGED << hookState, handled, hookQueue, props, onOptionChange,
                    platform, created, audioManager, fault, deviceCallback,
                    routeChangeObserver, registered, devices, result, hookValue,
                    pc, pending >>

\* async setValueAsync(value) { this.emit('onChange', { value }) }
SetValueAsync(value) ==
    /\ platform = "web"
    /\ UNCHANGED listeners
    /\ sendEvent(<< value >>)
    /\ calls' = << [call |-> "setValueAsync", value |-> value] >>
    /\ Did("setValueAsync")
    /\ UNCHANGED << hookState, handled, hookQueue, props, onOptionChange,
                    platform, created, audioManager, fault, deviceCallback,
                    routeChangeObserver, registered, devices, result, hookValue,
                    pc, pending >>

\* the App: listeners of onChange come and go, the button calls setValueAsync
NextExample ==
    \/ \E value \in Values : SetValueAsync(value)
    \/ \E l \in ListenerIds : WebAddListener(l)
    \/ \E l \in ListenerIds : WebRemoveListener(l)

SpecExample == InitWeb /\ [][NextExample]_vars

\* C28: each setValueAsync(v) emits exactly one onChange event with value v,
\* handed to every listener subscribed at that moment and to no listener that
\* was removed.
C28_BoilerplateEvent ==
    lastOp = "setValueAsync" =>
        /\ Len(calls) = 1
        /\ sent = << calls[1].value >>
        /\ \A l \in listeners : received[l] = << calls[1].value >>
        /\ \A l \in ListenerIds \ listeners : received[l] = << >>

\* C28 witness: one listener had just been removed, another stayed; the call
\* setValueAsync("Goodbye") reached the one that stayed only.
C28_Witness ==
    /\ lastOp = "setValueAsync"
    /\ prevOp = "removeListener"
    /\ listeners = {2}
    /\ received[2] = << "Goodbye" >>
    /\ received[1] = << >>


----------------------------------------------------------------------------
(* Android handle invariant (SpecObserver).                                *)

\* C29: on Android a non-null deviceCallback implies a non-null audioManager
\* (only OnCreate assigns audioManager, nothing resets it), so whenever stop
\* returns, the handle is null and no callback is left registered: its early
\* return on a null audioManager never skips a removal.
C29_AndroidHandleInvariant ==
    [][ platform = "android" =>
          /\ deviceCallback' # Null => audioManager'
          /\ registered' # {} => audioManager'
          /\ audioManager => audioManager'
          /\ audioManager' # audioManager => lastOp' = "onCreate"
          /\ lastOp' = "stop" => (deviceCallback' = Null /\ registered' = {}) ]_vars

\* C29 witness: on Android with the service, start registered a callback and
\* stop then removed it and cleared the handle.
C29_Witness ==
    /\ platform = "android"
    /\ audioManager
    /\ lastOp = "stop"
    /\ prevOp = "start"
    /\ deviceCallback = Null
    /\ registered = {}
    /\ Len(calls) = 1
    /\ calls[1].call = "unregister"

====
